---- MODULE Spec2Model ----
(***************************************************************************)
(* Editor::ItemBase (Telegram/SourceFiles/editor/scene_item_base.cpp): a   *)
(* resizable, rotatable, flippable item of the photo editor's scene.       *)
(*                                                                         *)
(* Units.  Lengths and coordinates are fixed-point numbers in eighths of a *)
(* pixel (Unit), so that every half and every product with an aspect ratio *)
(* the code computes is exact.  _horizontalSize only ever holds whole      *)
(* pixels (an int constructor argument or the int result of std::clamp),   *)
(* so horizontalSize is kept in pixels.  Angles are in thousandths of a    *)
(* degree (Deg).  Zoom and aspect ratio are in quarters (Quarter).         *)
(***************************************************************************)
EXTENDS Integers, Sequences, FiniteSets, TLC

\* ------------------------------------------------------------------ bounds
MaxItems == 2
MaxEvents == 5

\* ------------------------------------------------------- program constants
\* The three st:: values are set by the editor's style sheet, in pixels.
kSnapAngle == 45
photoEditorItemMinSize == 32
photoEditorItemMaxSize == 512
photoEditorItemHandleSize == 10

\* ------------------------------------------------------------- fixed point
Unit == 8
Deg == 1000
Quarter == 4

Items == 1 .. MaxItems

Abs(n) == IF n < 0 THEN -n ELSE n

\* int(x) of a double n/d (d > 0): truncation toward zero.
Trunc(n, d) == IF n >= 0 THEN n \div d ELSE -((-n) \div d)

RoundDown(n, d) == Trunc(n, d)

\* std::round(n/d) (d > 0): nearest integer, halves away from zero.
Round(n, d) ==
    IF n >= 0 THEN (2 * n + d) \div (2 * d) ELSE -((2 * (-n) + d) \div (2 * d))

ClampLow(v, lo, hi) == IF v < lo THEN lo ELSE v

\* std::clamp(v, lo, hi).
Clamp(v, lo, hi) == IF v < lo THEN lo ELSE IF hi < v THEN hi ELSE v

Normalized(angle) ==
    angle + (IF Abs(angle) < 360 * Deg
             THEN 0
             ELSE -360 * Deg * (IF angle < 0 THEN -1 ELSE 1))

\* ------------------------------------------------------------------ inputs
\* Pointer positions in item coordinates (eighths of a pixel).
Points ==
    { <<0, 0>>, <<128, 0>>, <<-128, 0>>, <<168, 40>>, <<-168, -40>>,
      <<22, 402>>, <<4200, -6>> }

\* std::atan2(y, x) * 180 / M_PI of the pointer positions, in Deg.
Atan2Deg(p) ==
    CASE p = <<0, 0>> -> 0
      [] p = <<128, 0>> -> 0
      [] p = <<-128, 0>> -> 180000
      [] p = <<168, 40>> -> 13392
      [] p = <<-168, -40>> -> -166608
      [] p = <<22, 402>> -> 86868
      [] p = <<4200, -6>> -> -82

ZoomValues == {1, 4}
AspectValues == {6}
ConstructSizes == {33}
\* Constructor arguments x, y (int, pixels) and the moves of the toolkit's
\* default drag (Unit).
ConstructPos == { <<-20, 7>> }
DragDeltas == { <<2, -250>> }

VARIABLES
    count,          \* items constructed so far: ids 1 .. count
    inScene,        \* scene() of the item is the scene
    horizontalSize, \* _horizontalSize, pixels
    verticalSize,   \* _verticalSize, Unit
    aspectRatio,    \* _aspectRatio, Quarter
    rotation,       \* QGraphicsItem::rotation(), Deg
    pos,            \* QGraphicsItem::pos(), Unit
    zValue,         \* QGraphicsItem::zValue()
    flipped,        \* _flipped
    handle,         \* _handle
    selected,       \* QGraphicsItem::isSelected()
    cursor,         \* QGraphicsItem::cursor()
    menu,           \* the popup of _menu is shown
    lastZ,          \* *_lastZ, the counter the items share
    zoom,           \* the value of the zoom producer, Quarter
    preFlip,        \* the flip flag before the item's latest Flip action
    flips,          \* the number of performFlip() calls on each item
    last,           \* the kind and the item of the event delivered last
    events          \* number of events delivered

vars ==
    << count, inScene, horizontalSize, verticalSize, aspectRatio, rotation,
       pos, zValue, flipped, handle, selected, cursor, menu, lastZ, zoom,
       preFlip, flips, last, events >>

\* ------------------------------------------------------------ construction
Init ==
    /\ count = 0
    /\ inScene = [i \in Items |-> FALSE]
    /\ horizontalSize = [i \in Items |-> 0]
    /\ verticalSize = [i \in Items |-> 0]
    /\ aspectRatio = [i \in Items |-> Quarter]
    /\ rotation = [i \in Items |-> 0]
    /\ pos = [i \in Items |-> <<0, 0>>]
    /\ zValue = [i \in Items |-> 0]
    /\ flipped = [i \in Items |-> FALSE]
    /\ handle = [i \in Items |-> "None"]
    /\ selected = [i \in Items |-> FALSE]
    /\ cursor = [i \in Items |-> "Arrow"]
    /\ menu = [i \in Items |-> FALSE]
    /\ preFlip = [i \in Items |-> {}]
    /\ flips = [i \in Items |-> 0]
    /\ lastZ = 0
    /\ zoom \in ZoomValues
    /\ last = [kind |-> "init", item |-> 0]
    /\ events = 0

Event(kind, i) ==
    /\ events < MaxEvents
    /\ events' = events + 1
    /\ last' = [kind |-> kind, item |-> i]

setFlipKeeps(was, value) == was

\* _flipped after setFlip(value) (lines 259-264).
setFlip(was, value) == IF was # value THEN value ELSE was

PerformFlipsAlways(was, value) == 1

\* The number of performFlip() calls setFlip(value) makes (lines 260-261).
PerformFlips(was, value) == IF was # value THEN 1 ELSE 0

NextZSame(z) == z

\* *_lastZ after (*_lastZ)++ (lines 66, 157).
NextZ(z) == z + 1

\* ItemBase::ItemBase(zoomValue, zPtr, size, x, y) for the new item n, which
\* the caller then configures (flip, rotation, selection) and adds to the scene.
NewItem(n, size, x, y, flip, rot, sel) ==
    /\ count' = n
    /\ horizontalSize' = [horizontalSize EXCEPT ![n] = size]
    /\ verticalSize' = [verticalSize EXCEPT ![n] = 0]
    /\ aspectRatio' = [aspectRatio EXCEPT ![n] = Quarter]
    /\ pos' = [pos EXCEPT ![n] = <<x * Unit, y * Unit>>]
    /\ zValue' = [zValue EXCEPT ![n] = lastZ]
    /\ lastZ' = NextZ(lastZ)
    /\ handle' = [handle EXCEPT ![n] = "None"]
    /\ cursor' = [cursor EXCEPT ![n] = "Arrow"]
    /\ flipped' = [flipped EXCEPT ![n] = setFlip(FALSE, flip)]
    /\ flips' = [flips EXCEPT ![n] = PerformFlips(FALSE, flip)]
    /\ rotation' = [rotation EXCEPT ![n] = rot]
    /\ inScene' = [inScene EXCEPT ![n] = TRUE]
    /\ selected' =
           IF sel
           THEN [j \in Items |-> IF j = n THEN TRUE
                                 ELSE IF inScene[j] THEN FALSE ELSE selected[j]]
           ELSE [selected EXCEPT ![n] = FALSE]

\* The editor constructs an item and adds it to the scene.
Construct(size, xy) ==
    /\ count < MaxItems
    /\ Event("construct", count + 1)
    /\ NewItem(count + 1, size, xy[1], xy[2], FALSE, 0, FALSE)
    /\ UNCHANGED <<menu, zoom, preFlip>>

\* ---------------------------------------------------------------- geometry
\* _scaledHandleSize = handleSize / zoom (Unit).
scaledHandleSize == (photoEditorItemHandleSize * Unit * Quarter) \div zoom

QRectF(x, y, w, h) == [x |-> x, y |-> y, w |-> w, h |-> h]

\* QRectF::contains(QPointF): edges included, a null rectangle holds nothing.
Contains(r, p) ==
    LET l == IF r.w < 0 THEN r.x + r.w ELSE r.x
        rr == IF r.w < 0 THEN r.x ELSE r.x + r.w
        t == IF r.h < 0 THEN r.y + r.h ELSE r.y
        b == IF r.h < 0 THEN r.y ELSE r.y + r.h
    IN  /\ l # rr
        /\ t # b
        /\ ~(p[1] < l \/ p[1] > rr)
        /\ ~(p[2] < t \/ p[2] > b)

rightHandleRect(i) ==
    QRectF(((horizontalSize[i] * Unit) \div 2) - (scaledHandleSize \div 2),
           0 - (scaledHandleSize \div 2),
           scaledHandleSize,
           scaledHandleSize)

leftHandleRect(i) ==
    QRectF(((-(horizontalSize[i] * Unit)) \div 2) - (scaledHandleSize \div 2),
           0 - (scaledHandleSize \div 2),
           scaledHandleSize,
           scaledHandleSize)

handleTypeLeftFirst(i, p) ==
    IF Contains(leftHandleRect(i), p) THEN "Left"
    ELSE IF Contains(rightHandleRect(i), p) THEN "Right"
    ELSE "None"

handleType(i, p) ==
    IF Contains(rightHandleRect(i), p) THEN "Right"
    ELSE IF Contains(leftHandleRect(i), p) THEN "Left"
    ELSE "None"

isHandling(i) == handle[i] # "None"

updateVerticalSizeSquare(hSize, ratio) == hSize * Unit

\* _horizontalSize * _aspectRatio (Unit).
updateVerticalSize(hSize, ratio) == (hSize * ratio * Unit) \div Quarter

\* _scaledInnerMargins: _scaledHandleSize * 0.5 on each side (lines 72-76).
scaledInnerMargins == scaledHandleSize \div 2

\* ItemBase::innerRect (lines 88-92).
innerRect(i) ==
    QRectF((-(horizontalSize[i] * Unit)) \div 2,
           (-verticalSize[i]) \div 2,
           horizontalSize[i] * Unit,
           verticalSize[i])

\* ItemBase::boundingRect: innerRect() + _scaledInnerMargins (lines 80-82).
boundingRect(i) ==
    LET r == innerRect(i)
        m == scaledInnerMargins
    IN  QRectF(r.x - m, r.y - m, r.w + 2 * m, r.h + 2 * m)

\* ItemBase::contentRect: innerRect() - _scaledInnerMargins (lines 84-86).
contentRect(i) ==
    LET r == innerRect(i)
        m == scaledInnerMargins
    IN  QRectF(r.x + m, r.y + m, r.w - 2 * m, r.h - 2 * m)

ResizeToUnclamped(isLeft, mousePos) ==
    LET p == IF isLeft THEN <<-mousePos[1], -mousePos[2]>> ELSE mousePos
        dx == Trunc(2 * p[1], Unit)
        dy == Trunc(2 * p[2], Unit)
    IN  IF dx > dy THEN dx ELSE dy

\* The new _horizontalSize of a resize (lines 121-128).
ResizeTo(isLeft, mousePos) ==
    LET p == IF isLeft THEN <<-mousePos[1], -mousePos[2]>> ELSE mousePos
        dx == Trunc(2 * p[1], Unit)
        dy == Trunc(2 * p[2], Unit)
    IN  Clamp(IF dx > dy THEN dx ELSE dy,
              photoEditorItemMinSize,
              photoEditorItemMaxSize)

\* std::atan2(diff.y(), diff.x()) * 180 / M_PI for diff = mapToScene(mousePos)
\* - mapToScene(boundingRect().center()): the item's transform is its rotation
\* about its origin, which is the centre of the bounding rectangle, so the
\* direction of diff is the direction of mousePos turned by the rotation,
\* brought into atan2's range.  On the negative x axis the sign of the rounded
\* y decides between 180 and -180: exact for rotations by multiples of 90.
SceneAngles(rot, mousePos) ==
    IF mousePos = <<0, 0>> THEN {0}
    ELSE LET s == Atan2Deg(mousePos) + rot
             w == ((s + 180 * Deg - 1) % (360 * Deg)) - (180 * Deg - 1)
         IN  IF w = 180 * Deg /\ rot % (90 * Deg) # 0
             THEN {180 * Deg, -180 * Deg}
             ELSE {w}

DragAngleNoOffset(isLeft, atan) == Normalized(atan)

\* The angle of line 137.
DragAngle(isLeft, atan) == Normalized((IF isLeft THEN 180 * Deg ELSE 0) + atan)

\* std::round(angle / kSnapAngle) * kSnapAngle.
SnapRotation(angle) == Round(angle, kSnapAngle * Deg) * (kSnapAngle * Deg)

\* The argument of setRotation (lines 139-141).
NewRotation(shift, angle) == IF shift THEN SnapRotation(angle) ELSE angle

\* ------------------------------------------------------------------ events
\* QGraphicsItem::mouseMoveEvent of a movable item: the toolkit drags the item
\* and the scene's selected items; sizes and rotations are not its business.
DefaultMove(i, d) ==
    /\ pos' = [j \in Items |->
                  IF j = i \/ (inScene[j] /\ selected[j])
                  THEN <<pos[j][1] + d[1], pos[j][2] + d[2]>>
                  ELSE pos[j]]
    /\ UNCHANGED <<horizontalSize, verticalSize, rotation>>

ResizesAlways(shift) == TRUE

\* The condition of the resize (line 119).
Resizes(shift) == ~shift

\* The handling branch of mouseMoveEvent (lines 116-141).
HandleMove(i, mousePos, shift) ==
    LET isLeft == (handle[i] = "Left")
        hSize == IF Resizes(shift) THEN ResizeTo(isLeft, mousePos)
                 ELSE horizontalSize[i]
    IN  /\ horizontalSize' = [horizontalSize EXCEPT ![i] = hSize]
        /\ verticalSize' =
               IF Resizes(shift)
               THEN [verticalSize EXCEPT
                        ![i] = updateVerticalSize(hSize, aspectRatio[i])]
               ELSE verticalSize
        /\ \E atan \in SceneAngles(rotation[i], mousePos) :
               rotation' = [rotation EXCEPT
                               ![i] = NewRotation(shift, DragAngle(isLeft, atan))]
        /\ UNCHANGED pos

mouseMoveEvent(i, mousePos, shift) ==
    /\ i <= count /\ inScene[i]
    /\ Event("move", i)
    /\ IF isHandling(i)
       THEN HandleMove(i, mousePos, shift)
       ELSE \E d \in DragDeltas : DefaultMove(i, d)
    /\ UNCHANGED <<count, inScene, aspectRatio, zValue, flipped, handle,
                   selected, cursor, menu, lastZ, zoom, preFlip, flips>>

HoverCursorUnselected(i, p) ==
    IF isHandling(i) THEN "ClosedHand"
    ELSE IF handleType(i, p) # "None" THEN "OpenHand"
    ELSE "Arrow"

\* The cursor of hoverMoveEvent (lines 148-152).
HoverCursor(i, p) ==
    IF isHandling(i) THEN "ClosedHand"
    ELSE IF handleType(i, p) # "None" /\ selected[i] THEN "OpenHand"
    ELSE "Arrow"

hoverMoveEvent(i, p) ==
    /\ i <= count /\ inScene[i]
    /\ Event("hover", i)
    /\ cursor' = [cursor EXCEPT ![i] = HoverCursor(i, p)]
    /\ UNCHANGED <<count, inScene, horizontalSize, verticalSize, aspectRatio,
                   rotation, pos, zValue, flipped, handle, selected, menu,
                   lastZ, zoom, preFlip, flips>>

PressedHandleAnyButton(i, left, p) == handleType(i, p)

\* _handle after lines 158-160.
PressedHandle(i, left, p) == IF left THEN handleType(i, p) ELSE handle[i]

\* QGraphicsItem::mousePressEvent of a selectable item: a left press on an
\* item that is not selected makes it the scene's only selected item.
DefaultPress(i, left) ==
    IF left /\ ~selected[i]
    THEN [j \in Items |-> IF j = i THEN TRUE
                          ELSE IF inScene[j] THEN FALSE ELSE selected[j]]
    ELSE selected

mousePressEvent(i, left, p) ==
    /\ i <= count /\ inScene[i]
    /\ Event("press", i)
    /\ zValue' = [zValue EXCEPT ![i] = lastZ]
    /\ lastZ' = NextZ(lastZ)
    /\ handle' = [handle EXCEPT ![i] = PressedHandle(i, left, p)]
    /\ IF handle'[i] # "None"
       THEN /\ cursor' = [cursor EXCEPT ![i] = "ClosedHand"]
            /\ UNCHANGED selected
       ELSE /\ selected' = DefaultPress(i, left)
            /\ UNCHANGED cursor
    /\ UNCHANGED <<count, inScene, horizontalSize, verticalSize, aspectRatio,
                   rotation, pos, flipped, menu, zoom, preFlip, flips>>

\* _handle after mouseReleaseEvent (lines 169-173).
ReleasedHandle(i, left) == IF left /\ isHandling(i) THEN "None" ELSE handle[i]

mouseReleaseEvent(i, left) ==
    /\ i <= count /\ inScene[i]
    /\ Event("release", i)
    /\ handle' = [handle EXCEPT ![i] = ReleasedHandle(i, left)]
    /\ UNCHANGED <<count, inScene, horizontalSize, verticalSize, aspectRatio,
                   rotation, pos, zValue, flipped, selected, cursor, menu,
                   lastZ, zoom, preFlip, flips>>

MenuSelectionNoClear(i) == [selected EXCEPT ![i] = TRUE]

\* The selection after lines 177-180.
MenuSelection(i) ==
    IF ~selected[i] /\ inScene[i]
    THEN [j \in Items |-> IF j = i THEN TRUE
                          ELSE IF inScene[j] THEN FALSE ELSE selected[j]]
    ELSE selected

contextMenuEvent(i) ==
    /\ i <= count /\ inScene[i]
    /\ Event("contextMenu", i)
    /\ selected' = MenuSelection(i)
    /\ menu' = [menu EXCEPT ![i] = TRUE]
    /\ UNCHANGED <<count, inScene, horizontalSize, verticalSize, aspectRatio,
                   rotation, pos, zValue, flipped, handle, cursor, lastZ,
                   zoom, preFlip, flips>>

DeleteAll(i) == [j \in Items |-> FALSE]

\* The scene's items after the Delete action (lines 184-186).
DeleteFrom(i) == IF inScene[i] THEN [inScene EXCEPT ![i] = FALSE] ELSE inScene

MenuDelete(i) ==
    /\ i <= count /\ menu[i]
    /\ Event("delete", i)
    /\ inScene' = DeleteFrom(i)
    /\ menu' = [menu EXCEPT ![i] = FALSE]
    /\ UNCHANGED <<count, horizontalSize, verticalSize, aspectRatio, rotation,
                   pos, zValue, flipped, handle, selected, cursor, lastZ,
                   zoom, preFlip, flips>>

MenuFlip(i) ==
    /\ i <= count /\ menu[i]
    /\ Event("flip", i)
    /\ flipped' = [flipped EXCEPT ![i] = setFlip(flipped[i], ~flipped[i])]
    /\ preFlip' = [preFlip EXCEPT ![i] = {flipped[i]}]
    /\ flips' = [flips EXCEPT
                     ![i] = @ + PerformFlips(flipped[i], ~flipped[i])]
    /\ menu' = [menu EXCEPT ![i] = FALSE]
    /\ UNCHANGED <<count, inScene, horizontalSize, verticalSize, aspectRatio,
                   rotation, pos, zValue, handle, selected, cursor, lastZ,
                   zoom>>

\* The editor calls setFlip(value) on the item.
SetFlip(i, value) ==
    /\ i <= count
    /\ Event("setFlip", i)
    /\ flipped' = [flipped EXCEPT ![i] = setFlip(flipped[i], value)]
    /\ flips' = [flips EXCEPT ![i] = @ + PerformFlips(flipped[i], value)]
    /\ preFlip' = [preFlip EXCEPT ![i] = {}]
    /\ UNCHANGED <<count, inScene, horizontalSize, verticalSize, aspectRatio,
                   rotation, pos, zValue, handle, selected, cursor, menu,
                   lastZ, zoom>>

DuplicateXNoOffset(i) == Trunc(pos[i][1], Unit)

\* The int arguments x, y of duplicate (lines 197-198): scenePos() plus a third
\* of the size, converted to int.
DuplicateX(i) == Trunc(3 * pos[i][1] + horizontalSize[i] * Unit, 3 * Unit)

DuplicateY(i) == Trunc(3 * pos[i][2] + verticalSize[i], 3 * Unit)

\* duplicate(zoom, zPtr, size, x, y) of the item's class: a new item of that
\* class, constructed from these arguments.
duplicate(i, n, size, x, y) ==
    NewItem(n, size, x, y, flipped[i], rotation[i], TRUE)

MenuDuplicate(i) ==
    /\ i <= count /\ menu[i]
    /\ Event("duplicate", i)
    /\ IF inScene[i]
       THEN /\ count < MaxItems
            /\ duplicate(i, count + 1, horizontalSize[i],
                         DuplicateX(i), DuplicateY(i))
       ELSE UNCHANGED <<count, inScene, horizontalSize, verticalSize,
                        aspectRatio, rotation, pos, zValue, flipped, handle,
                        selected, cursor, lastZ, flips>>
    /\ menu' = [menu EXCEPT ![i] = FALSE]
    /\ UNCHANGED <<zoom, preFlip>>

setAspectRatio(i, ratio) ==
    /\ i <= count
    /\ Event("setAspectRatio", i)
    /\ aspectRatio' = [aspectRatio EXCEPT ![i] = ratio]
    /\ verticalSize' = [verticalSize EXCEPT
                           ![i] = updateVerticalSize(horizontalSize[i], ratio)]
    /\ UNCHANGED <<count, inScene, horizontalSize, rotation, pos, zValue,
                   flipped, handle, selected, cursor, menu, lastZ, zoom,
                   preFlip, flips>>

\* The zoom producer fires (lines 69-77).
SetZoom(z) ==
    /\ z # zoom
    /\ Event("zoom", 0)
    /\ zoom' = z
    /\ UNCHANGED <<count, inScene, horizontalSize, verticalSize, aspectRatio,
                   rotation, pos, zValue, flipped, handle, selected, cursor,
                   menu, lastZ, preFlip, flips>>

\* The toolkit changes the selection otherwise (Ctrl+click, rubber band).
SetSelected(i, value) ==
    /\ i <= count /\ inScene[i] /\ selected[i] # value
    /\ Event("select", i)
    /\ selected' = [selected EXCEPT ![i] = value]
    /\ UNCHANGED <<count, inScene, horizontalSize, verticalSize, aspectRatio,
                   rotation, pos, zValue, flipped, handle, cursor, menu,
                   lastZ, zoom, preFlip, flips>>

\* The editor removes the item from the scene (undo, clear).
SceneRemoveItem(i) ==
    /\ i <= count /\ inScene[i]
    /\ Event("sceneRemove", i)
    /\ inScene' = [inScene EXCEPT ![i] = FALSE]
    /\ UNCHANGED <<count, horizontalSize, verticalSize, aspectRatio, rotation,
                   pos, zValue, flipped, handle, selected, cursor, menu,
                   lastZ, zoom, preFlip, flips>>

Next ==
    \/ \E size \in ConstructSizes, xy \in ConstructPos : Construct(size, xy)
    \/ \E i \in Items, p \in Points, shift \in BOOLEAN :
           mouseMoveEvent(i, p, shift)
    \/ \E i \in Items, p \in Points : hoverMoveEvent(i, p)
    \/ \E i \in Items, left \in BOOLEAN, p \in Points :
           mousePressEvent(i, left, p)
    \/ \E i \in Items, left \in BOOLEAN : mouseReleaseEvent(i, left)
    \/ \E i \in Items : contextMenuEvent(i)
    \/ \E i \in Items : MenuDelete(i)
    \/ \E i \in Items : MenuFlip(i)
    \/ \E i \in Items, value \in BOOLEAN : SetFlip(i, value)
    \/ \E i \in Items : MenuDuplicate(i)
    \/ \E i \in Items, ratio \in AspectValues : setAspectRatio(i, ratio)
    \/ \E z \in ZoomValues : SetZoom(z)
    \/ \E i \in Items, value \in BOOLEAN : SetSelected(i, value)
    \/ \E i \in Items : SceneRemoveItem(i)

Spec == Init /\ [][Next]_vars

\* ---------------------------------------------------- handles as mirrors
\* Rotations an item can have when a drag begins, the odd multiples of 22.5
\* degrees, halfway between two snap angles, among them.
MirrorRotations == {0, -22500, -67500}

\* One item, constructed and added to the scene, then turned by the editor.
InitMirror ==
    /\ count = 1
    /\ inScene = [i \in Items |-> i = 1]
    /\ \E size \in ConstructSizes :
           horizontalSize = [i \in Items |-> IF i = 1 THEN size ELSE 0]
    /\ verticalSize = [i \in Items |-> 0]
    /\ aspectRatio = [i \in Items |-> Quarter]
    /\ \E rot \in MirrorRotations :
           rotation = [i \in Items |-> IF i = 1 THEN rot ELSE 0]
    /\ \E xy \in ConstructPos :
           pos = [i \in Items |->
                     IF i = 1 THEN <<xy[1] * Unit, xy[2] * Unit>> ELSE <<0, 0>>]
    /\ zValue = [i \in Items |-> 0]
    /\ flipped = [i \in Items |-> FALSE]
    /\ handle = [i \in Items |-> "None"]
    /\ selected = [i \in Items |-> FALSE]
    /\ cursor = [i \in Items |-> "Arrow"]
    /\ menu = [i \in Items |-> FALSE]
    /\ preFlip = [i \in Items |-> {}]
    /\ flips = [i \in Items |-> 0]
    /\ lastZ = NextZ(0)
    /\ zoom \in ZoomValues
    /\ last = [kind |-> "construct", item |-> 1]
    /\ events = 0

\* The events of a drag.
NextMirror ==
    \/ \E i \in Items, left \in BOOLEAN, p \in Points :
           mousePressEvent(i, left, p)
    \/ \E i \in Items, p \in Points, shift \in BOOLEAN :
           mouseMoveEvent(i, p, shift)
    \/ \E i \in Items, left \in BOOLEAN : mouseReleaseEvent(i, left)

SpecMirror == InitMirror /\ [][NextMirror]_vars

\* ------------------------------------------------------------- properties
\* p lies in the square of side `side` centred at (cx2 / 2, 0).
InSquare(p, cx2, side) ==
    /\ Abs(2 * p[1] - cx2) <= side
    /\ Abs(2 * p[2]) <= side

\* int(a / Unit): the integer of the same sign whose magnitude is the whole
\* part of the magnitude.
IntOf(a) == (IF a < 0 THEN -1 ELSE 1) * (Abs(a) \div Unit)

\* C1: a move with Shift held on an item whose handle is active sets the
\* rotation to the multiple of 45 degrees nearest to the angle of the pointer
\* about the item's centre in the scene (plus 180 degrees for the left
\* handle, a full turn brought back to 0), halves rounded away from zero.
C1_ShiftMoveSnapsRotation ==
    [][\A i \in Items, p \in Points :
          (mouseMoveEvent(i, p, TRUE) /\ isHandling(i)) =>
              \E atan \in SceneAngles(rotation[i], p) :
                  LET raw == (IF handle[i] = "Left" THEN 180 * Deg ELSE 0) + atan
                      angle == IF raw = 360 * Deg THEN 0 ELSE raw
                      r == rotation'[i]
                  IN  /\ r % (45 * Deg) = 0
                      /\ 2 * Abs(r - angle) <= 45 * Deg
                      /\ (2 * Abs(r - angle) = 45 * Deg => Abs(r) > Abs(angle))
                      /\ Abs(angle) < 360 * Deg]_vars

\* A Shift move of the left handle has snapped the rotation to 270 degrees.
C1_Witness ==
    \E i \in Items :
        /\ last = [kind |-> "move", item |-> i]
        /\ handle[i] = "Left"
        /\ rotation[i] = 270 * Deg

\* C2: a move without Shift on an item whose handle is active sets the
\* horizontal size to max(dx, dy) clamped to [photoEditorItemMinSize,
\* photoEditorItemMaxSize], dx and dy being twice the pointer's item
\* coordinates (negated for the left handle) truncated toward zero.
C2_MoveResizesClamped ==
    [][\A i \in Items, p \in Points :
          (mouseMoveEvent(i, p, FALSE) /\ isHandling(i)) =>
              LET sign == IF handle[i] = "Left" THEN -1 ELSE 1
                  dx == IntOf(2 * sign * p[1])
                  dy == IntOf(2 * sign * p[2])
                  m == IF dx > dy THEN dx ELSE dy
                  size == horizontalSize'[i]
              IN  /\ m < photoEditorItemMinSize => size = photoEditorItemMinSize
                  /\ m > photoEditorItemMaxSize => size = photoEditorItemMaxSize
                  /\ (photoEditorItemMinSize <= m /\ m <= photoEditorItemMaxSize)
                         => size = m
                  /\ photoEditorItemMinSize <= size
                  /\ size <= photoEditorItemMaxSize]_vars

\* A move of the left handle has resized the item to 42 pixels.
C2_Witness ==
    \E i \in Items :
        /\ last = [kind |-> "move", item |-> i]
        /\ handle[i] = "Left"
        /\ horizontalSize[i] = 42
        /\ rotation[i] % (45 * Deg) # 0

\* C3: a move with Shift held on an item whose handle is active leaves the
\* horizontal and the vertical size unchanged.
C3_ShiftMoveKeepsSize ==
    [][\A i \in Items, p \in Points :
          (mouseMoveEvent(i, p, TRUE) /\ isHandling(i)) =>
              /\ horizontalSize'[i] = horizontalSize[i]
              /\ verticalSize'[i] = verticalSize[i]]_vars

\* A move has snapped the rotation of an item that still has the sizes it had
\* before (33 by 49.5 pixels), which no resize produces.
C3_Witness ==
    \E i \in Items :
        /\ last = [kind |-> "move", item |-> i]
        /\ isHandling(i)
        /\ rotation[i] = 90 * Deg
        /\ horizontalSize[i] = 33
        /\ 2 * verticalSize[i] = 99 * Unit

\* C4: a left-button press stores the hit-test of its position as the active
\* handle: Right in the square of side scaledHandleSize centred at
\* (horizontalSize / 2, 0), otherwise Left in the square centred at
\* (-horizontalSize / 2, 0), otherwise None.
C4_PressStoresHitTest ==
    [][\A i \in Items, p \in Points :
          mousePressEvent(i, TRUE, p) =>
              LET inRight == InSquare(p, horizontalSize[i] * Unit, scaledHandleSize)
                  inLeft == InSquare(p, -(horizontalSize[i] * Unit), scaledHandleSize)
              IN  /\ inRight => handle'[i] = "Right"
                  /\ (~inRight /\ inLeft) => handle'[i] = "Left"
                  /\ (~inRight /\ ~inLeft) => handle'[i] = "None"]_vars

\* A press has made the right handle active while the two handle squares
\* overlap.
C4_Witness ==
    \E i \in Items :
        /\ last = [kind |-> "press", item |-> i]
        /\ handle[i] = "Right"
        /\ scaledHandleSize > horizontalSize[i] * Unit

\* The fields of item i that the menu's actions are said to keep.
Shape(i) == <<horizontalSize[i], verticalSize[i], rotation[i], flipped[i], pos[i]>>

\* What the Duplicate action does but for the position of the new item.
DuplicateEffect(i) ==
    IF inScene[i]
    THEN LET n == count'
         IN  /\ count' = count + 1
             /\ inScene' = [inScene EXCEPT ![n] = TRUE]
             /\ horizontalSize'[n] = horizontalSize[i]
             /\ flipped'[n] = flipped[i]
             /\ rotation'[n] = rotation[i]
             /\ \A j \in Items : (inScene'[j] /\ selected'[j]) <=> j = n
             /\ \A j \in 1 .. count : Shape(j)' = Shape(j)
    ELSE UNCHANGED <<count, inScene, horizontalSize, verticalSize, aspectRatio,
                     rotation, pos, zValue, flipped, handle, selected, cursor,
                     lastZ>>

\* x is the whole number of pixels of e3 / 3 (Unit), truncated toward zero.
TruncatedThird(x, e3) ==
    /\ x % Unit = 0
    /\ x * e3 >= 0
    /\ Abs(3 * x) <= Abs(e3)
    /\ Abs(e3) - Abs(3 * x) < 3 * Unit

\* C5 (as amended): the Duplicate action of an item in a scene adds exactly
\* one item with the original's horizontal size, flip flag and rotation, the
\* only selected item of the scene afterwards, positioned at the original's
\* scene position plus (horizontalSize / 3, verticalSize / 3) with each
\* coordinate truncated toward zero to whole pixels; the original is
\* unchanged; on an item in no scene the action does nothing.
C5_DuplicateTruncatedPosition ==
    [][\A i \in Items :
          MenuDuplicate(i) =>
              /\ DuplicateEffect(i)
              /\ inScene[i] =>
                     /\ TruncatedThird(pos'[count'][1],
                                       3 * pos[i][1] + horizontalSize[i] * Unit)
                     /\ TruncatedThird(pos'[count'][2],
                                       3 * pos[i][2] + verticalSize[i])]_vars

\* C5 (as stated): the duplicate is positioned at exactly the original's scene
\* position plus (horizontalSize / 3, verticalSize / 3).
C5_DuplicateExactPosition ==
    [][\A i \in Items :
          MenuDuplicate(i) =>
              /\ DuplicateEffect(i)
              /\ inScene[i] =>
                     /\ 3 * (pos'[count'][1] - pos[i][1]) = horizontalSize[i] * Unit
                     /\ 3 * (pos'[count'][2] - pos[i][2]) = verticalSize[i]]_vars

\* An item dragged to 32 pixels and half a turn has been duplicated: the
\* duplicate is selected, turned as the original and 11 pixels right of it, a
\* third of 32 pixels being 10.67.
C5_Witness ==
    /\ last = [kind |-> "duplicate", item |-> 1]
    /\ count = 2
    /\ inScene[1] /\ inScene[2]
    /\ selected[2]
    /\ rotation[2] # 0 /\ rotation[2] = rotation[1]
    /\ horizontalSize[1] = 32 /\ horizontalSize[2] = 32
    /\ pos[1][1] = -20 * Unit
    /\ pos[2][1] = -9 * Unit

\* C6: the Flip action negates the flip flag, a second Flip action on the item
\* restores the flag the first one found, and the action leaves sizes,
\* rotation, position, active handle and z value unchanged.
C6_FlipToggles ==
    [][\A i \in Items :
          MenuFlip(i) =>
              /\ flipped'[i] = ~flipped[i]
              /\ \A was \in preFlip[i] : flipped'[i] = was
              /\ horizontalSize'[i] = horizontalSize[i]
              /\ verticalSize'[i] = verticalSize[i]
              /\ rotation'[i] = rotation[i]
              /\ pos'[i] = pos[i]
              /\ handle'[i] = handle[i]
              /\ zValue'[i] = zValue[i]]_vars

\* An item has been flipped twice and is not flipped.
C6_Witness ==
    \E i \in Items :
        /\ last = [kind |-> "flip", item |-> i]
        /\ preFlip[i] = {TRUE}
        /\ ~flipped[i]

\* C7: the Delete action removes the item from the scene it is in and no other
\* item; on an item in no scene it does nothing.
C7_DeleteRemovesOnlyItem ==
    [][\A i \in Items :
          MenuDelete(i) =>
              /\ ~inScene'[i]
              /\ \A j \in Items \ {i} : inScene'[j] = inScene[j]
              /\ ~inScene[i] => inScene' = inScene
              /\ UNCHANGED <<count, horizontalSize, verticalSize, rotation, pos,
                             flipped, selected, lastZ>>]_vars

\* An item has been deleted from a scene that keeps another item.
C7_Witness ==
    \E i \in Items, j \in Items :
        /\ last = [kind |-> "delete", item |-> i]
        /\ ~inScene[i]
        /\ j # i /\ inScene[j]

\* C8: the context menu event of an item that is in a scene and not selected
\* leaves it the only selected item of the scene; on a selected item it leaves
\* the selection unchanged.
C8_ContextMenuSelects ==
    [][\A i \in Items :
          contextMenuEvent(i) =>
              /\ menu'[i]
              /\ ~selected[i] =>
                     \A j \in Items : inScene[j] => (selected'[j] <=> j = i)
              /\ selected[i] => selected' = selected]_vars

\* The menu has been opened on a selected item and another item is still
\* selected.
C8_Witness ==
    \E i \in Items, j \in Items :
        /\ last = [kind |-> "contextMenu", item |-> i]
        /\ menu[i] /\ selected[i]
        /\ j # i /\ inScene[j] /\ selected[j]

\* C9: a hover-move event sets the cursor to the closed hand when a handle is
\* active, otherwise to the open hand exactly when the pointer is in a handle
\* square and the item is selected, otherwise to the arrow; it never sets the
\* open hand on an item that is not selected.
C9_HoverCursor ==
    [][\A i \in Items, p \in Points :
          hoverMoveEvent(i, p) =>
              LET inHandle ==
                      \/ InSquare(p, horizontalSize[i] * Unit, scaledHandleSize)
                      \/ InSquare(p, -(horizontalSize[i] * Unit), scaledHandleSize)
              IN  /\ handle[i] # "None" => cursor'[i] = "ClosedHand"
                  /\ (handle[i] = "None" /\ inHandle /\ selected[i])
                         => cursor'[i] = "OpenHand"
                  /\ (handle[i] = "None" /\ ~(inHandle /\ selected[i]))
                         => cursor'[i] = "Arrow"
                  /\ ~selected[i] => cursor'[i] # "OpenHand"]_vars

\* A hover over a handle of a selected item has set the open hand.
C9_Witness ==
    \E i \in Items :
        /\ last = [kind |-> "hover", item |-> i]
        /\ cursor[i] = "OpenHand"
        /\ selected[i]
        /\ handle[i] = "None"

\* C10: the active handle leaves None only by a left-button press that hits a
\* handle square; it returns to None only by a left-button release while
\* active or a left-button press that hits none, and no left-button release
\* leaves it active; no press or release of another button changes it; and
\* no move event on an item whose handle is not active changes a size or a
\* rotation.
C10_HandleLifecycle ==
    [][/\ \A i \in Items :
              (handle[i] = "None" /\ handle'[i] # "None") =>
                  \E p \in Points :
                      /\ mousePressEvent(i, TRUE, p)
                      /\ \/ InSquare(p, horizontalSize[i] * Unit, scaledHandleSize)
                         \/ InSquare(p, -(horizontalSize[i] * Unit), scaledHandleSize)
       /\ \A i \in Items :
              (handle[i] # "None" /\ handle'[i] = "None") =>
                  \/ mouseReleaseEvent(i, TRUE)
                  \/ \E p \in Points :
                         /\ mousePressEvent(i, TRUE, p)
                         /\ ~InSquare(p, horizontalSize[i] * Unit, scaledHandleSize)
                         /\ ~InSquare(p, -(horizontalSize[i] * Unit), scaledHandleSize)
       /\ \A i \in Items :
              (handle[i] # "None" /\ handle'[i] # "None") =>
                  ~mouseReleaseEvent(i, TRUE)
       /\ handle' # handle =>
              \A i \in Items, p \in Points :
                  ~(mousePressEvent(i, FALSE, p) \/ mouseReleaseEvent(i, FALSE))
       /\ (horizontalSize' # horizontalSize \/ verticalSize' # verticalSize
               \/ rotation' # rotation) =>
              \A i \in Items, p \in Points, shift \in BOOLEAN :
                  mouseMoveEvent(i, p, shift) => isHandling(i)]_vars

\* A handle that a press made active (the cursor still shows the closed hand)
\* has been released.
C10_Witness ==
    \E i \in Items :
        /\ last = [kind |-> "release", item |-> i]
        /\ handle[i] = "None"
        /\ cursor[i] = "ClosedHand"

Topmost ==
    IF last.kind \in {"construct", "press"} THEN {last.item}
    ELSE IF last.kind = "duplicate" /\ inScene[last.item] THEN {count}
    ELSE {}

\* The counter is above every z value, the z values differ, the item
\* constructed or pressed last is above all others and a duplicate just
\* created is above its original.
ZValuesOrdered ==
    /\ \A i \in 1 .. count : zValue[i] < lastZ
    /\ \A i \in 1 .. count, j \in 1 .. count : i # j => zValue[i] # zValue[j]
    /\ \A i \in Topmost, j \in 1 .. count : i # j => zValue[i] > zValue[j]
    /\ (last.kind = "duplicate" /\ inScene[last.item]) =>
           zValue[count] > zValue[last.item]

\* The step is a mousePressEvent of item i, of whichever button and position:
\* the only event that records a press.
Pressed(i) == events' = events + 1 /\ last' = [kind |-> "press", item |-> i]

\* C12: every construction and every press, of any button and on a handle or
\* not, gives the item the counter's value and adds one to the counter; so the
\* counter is above every item's z value, no two items share a z value, the
\* item constructed or pressed last is above all others, and a duplicate is
\* above its original.
C12_ZOrder ==
    /\ []ZValuesOrdered
    /\ [][/\ \A i \in Items :
                 Pressed(i) => zValue'[i] = lastZ /\ lastZ' = lastZ + 1
          /\ count' # count =>
                 zValue'[count'] = lastZ /\ lastZ' = lastZ + 1]_vars

\* The item constructed first has been pressed after a second one was
\* constructed, and is above it.
C12_Witness ==
    /\ last = [kind |-> "press", item |-> 1]
    /\ count = 2
    /\ handle[1] = "None"
    /\ zValue[1] = 2 /\ zValue[2] = 1
    /\ lastZ = 3

\* C13: the rotation a handle drag applies has an absolute value strictly
\* below 360 degrees, for either handle, every pointer position, and with and
\* without Shift.
C13_DragRotationBelowFullTurn ==
    [][\A i \in Items, p \in Points, shift \in BOOLEAN :
           (mouseMoveEvent(i, p, shift) /\ isHandling(i)) =>
               Abs(rotation'[i]) < 360 * Deg]_vars

\* C14: a left press inside a handle rectangle of an item that is not
\* selected does not make a handle active.
C14_PressOnUnselectedKeepsNoHandle ==
    [][\A i \in Items, p \in Points :
           (mousePressEvent(i, TRUE, p) /\ ~selected[i]) =>
               handle'[i] = "None"]_vars

\* _verticalSize == _horizontalSize * _aspectRatio for item i.
VerticalFollows(i) ==
    verticalSize[i] * Quarter = horizontalSize[i] * aspectRatio[i] * Unit

\* r is centred on the item's origin.
Centred(r) == 2 * r.x + r.w = 0 /\ 2 * r.y + r.h = 0

\* The steps that establish and keep the relation of C15.
VerticalSizeSteps ==
    /\ last'.kind = "setAspectRatio" =>
           \A i \in Items, ratio \in AspectValues :
               setAspectRatio(i, ratio) => VerticalFollows(i)'
    /\ last'.kind = "move" =>
           \A i \in Items, p \in Points :
               (isHandling(i) /\ mouseMoveEvent(i, p, FALSE)) =>
                   VerticalFollows(i)'
    /\ \A i \in 1 .. count : VerticalFollows(i) => VerticalFollows(i)'

\* The rectangles of an item whose vertical size follows its horizontal size:
\* all centred on the origin, the inner one of height verticalSize, the
\* bounding and content ones higher and lower by the scaled handle size.
RectsOf(i) ==
    /\ Centred(innerRect(i))
    /\ Centred(boundingRect(i))
    /\ Centred(contentRect(i))
    /\ innerRect(i).h = verticalSize[i]
    /\ boundingRect(i).h = verticalSize[i] + scaledHandleSize
    /\ contentRect(i).h = verticalSize[i] - scaledHandleSize

\* The three rectangles centred on the origin and all of height verticalSize.
RectsSameHeight(i) ==
    /\ Centred(innerRect(i))
    /\ Centred(boundingRect(i))
    /\ Centred(contentRect(i))
    /\ innerRect(i).h = verticalSize[i]
    /\ boundingRect(i).h = verticalSize[i]
    /\ contentRect(i).h = verticalSize[i]

\* C15: setAspectRatio and a handle drag without Shift leave verticalSize
\* equal to horizontalSize * aspectRatio, and every later step keeps it so;
\* the inner rectangle then has that height, the bounding rectangle that
\* height plus the scaled handle size and the content rectangle that height
\* minus the scaled handle size, all three centred on the item's origin.
C15_VerticalSizeFollows ==
    /\ [][VerticalSizeSteps]_vars
    /\ [](\A i \in 1 .. count : VerticalFollows(i) => RectsOf(i))

\* C15 as stated: all three rectangles have the height
\* horizontalSize * aspectRatio.
C15_AllRectsSameHeight ==
    /\ [][VerticalSizeSteps]_vars
    /\ [](\A i \in 1 .. count : VerticalFollows(i) => RectsSameHeight(i))

\* An item given the aspect ratio 1.5 has been resized by a drag since.
C15_Witness ==
    /\ last = [kind |-> "move", item |-> 1]
    /\ aspectRatio[1] = 6
    /\ horizontalSize[1] = 42
    /\ verticalSize[1] = 63 * Unit
    /\ boundingRect(1).h = 63 * Unit + scaledHandleSize

\* C17: setFlip(v) calls performFlip once when v differs from the flip flag
\* and not at all when it equals it, and leaves the flag equal to v; the Flip
\* action calls it once; so an item's flag differs from its initial value,
\* false, exactly when performFlip has been called on it an odd number of
\* times; and on the duplicate of a flipped original performFlip has been
\* called exactly once.
C17_PerformFlipCount ==
    [][/\ \A i \in Items, v \in BOOLEAN :
              SetFlip(i, v) =>
                  /\ flipped'[i] = v
                  /\ flipped[i] # v => flips'[i] = flips[i] + 1
                  /\ flipped[i] = v => flips'[i] = flips[i]
       /\ \A i \in Items :
              MenuFlip(i) =>
                  flipped'[i] = ~flipped[i] /\ flips'[i] = flips[i] + 1
       /\ \A i \in 1 .. count' : flipped'[i] <=> (flips'[i] % 2 = 1)
       /\ \A i \in Items :
              (MenuDuplicate(i) /\ inScene[i]) =>
                  /\ flipped'[count'] = flipped[i]
                  /\ flipped[i] => flips'[count'] = 1
                  /\ ~flipped[i] => flips'[count'] = 0
      ]_vars

\* A flipped item has been duplicated; performFlip has been called once on
\* the original and once on the duplicate.
C17_Witness ==
    /\ last = [kind |-> "duplicate", item |-> 1]
    /\ count = 2
    /\ flipped[1] /\ flips[1] = 1
    /\ flipped[2] /\ flips[2] = 1

\* The pointer positions whose mirror image is a pointer position too.
MirrorPoints == {p \in Points : <<-p[1], -p[2]>> \in Points}

\* a and b are the same rotation modulo 360 degrees.
SameTurn(a, b) == (a - b) % (360 * Deg) = 0

\* The angle of the pointer is below zero and halfway between two multiples
\* of kSnapAngle, where std::round rounds away from zero.
Halfway(rot, p) ==
    \E a \in SceneAngles(rot, p) :
        a < 0 /\ 2 * ((-a) % (kSnapAngle * Deg)) = kSnapAngle * Deg

\* The rotations a move of the left handle to the mirror image of p applies.
LeftRotations(i, p, shift) ==
    {NewRotation(shift, DragAngle(TRUE, a)) :
         a \in SceneAngles(rotation[i], <<-p[1], -p[2]>>)}

\* The horizontal size after a move of the left handle to the mirror image
\* of p.
LeftSize(i, p, shift) ==
    IF Resizes(shift) THEN ResizeTo(TRUE, <<-p[1], -p[2]>>)
    ELSE horizontalSize[i]

\* C16: from the same state, a move of the left handle to -p gives the
\* horizontal size a move of the right handle to p gives; it gives the same
\* rotation modulo 360 degrees unless p is the item's origin, where the
\* rotations are half a turn apart, or Shift is held and the pointer's angle
\* is below zero and halfway between two multiples of 45 degrees, where the
\* left handle snaps 45 degrees further.
C16_MirrorExceptOriginAndTies ==
    [][\A i \in Items, p \in MirrorPoints, shift \in BOOLEAN :
           (mouseMoveEvent(i, p, shift) /\ handle[i] = "Right") =>
               /\ horizontalSize'[i] = LeftSize(i, p, shift)
               /\ \A r \in LeftRotations(i, p, shift) :
                      IF p = <<0, 0>>
                      THEN SameTurn(r, rotation'[i] + 180 * Deg)
                      ELSE IF shift /\ Halfway(rotation[i], p)
                      THEN SameTurn(r, rotation'[i] + kSnapAngle * Deg)
                      ELSE SameTurn(r, rotation'[i])]_vars

\* C16 as stated: the same horizontal size and the same rotation modulo 360
\* degrees for every p, with and without Shift.
C16_HandlesMirror ==
    [][\A i \in Items, p \in MirrorPoints, shift \in BOOLEAN :
           (mouseMoveEvent(i, p, shift) /\ handle[i] = "Right") =>
               /\ horizontalSize'[i] = LeftSize(i, p, shift)
               /\ \A r \in LeftRotations(i, p, shift) :
                      SameTurn(r, rotation'[i])]_vars

\* The right handle of an item turned by -22.5 degrees has been moved away
\* from the origin without Shift, resizing and turning the item.
C16_Witness ==
    /\ last = [kind |-> "move", item |-> 1]
    /\ events = 2
    /\ handle[1] = "Right"
    /\ horizontalSize[1] = 42
    /\ rotation[1] = 13392 - 22500

====
